---- MODULE Spec2Model ----
(***************************************************************************)
(* Orbit backend (src/server.js): POST /generate-website.                  *)
(*                                                                         *)
(* Texts are TLA+ strings handled character by character (Len, SubSeq,     *)
(* \o).  A TLA+ string cannot hold the grave accent U+0060, so the model   *)
(* writes that one character as "~" (Tick); no other text of the model     *)
(* uses "~".                                                               *)
(***************************************************************************)
EXTENDS Naturals, Sequences, FiniteSets, TLC

VARIABLES
    pending,      \* requests the clients have not sent yet
    pc,           \* per request: where its handler is suspended
    body,         \* per request: req.body {prompt, theme}
    userProblem,  \* per request: the composed prompt (server.js:195)
    response,     \* per request: the provider's HTTP response {status, text}
    rawContent,   \* per request: data.choices[0].message.content
    art,          \* per request: htmlContent, cssContent, jsContent
    projectPath,  \* per request: ./generated_websites/<folderName>
    res,          \* per request: the HTTP response sent (code 0: none yet)
    log,          \* per request: its provider call and filesystem calls, in order
    toolResults,  \* per request: what executeCommand and writeFileContent returned
    dirs,         \* filesystem: the directories that exist
    files,        \* filesystem: path -> content of the regular files
    faults,       \* number of environment faults injected so far
    text,         \* the text given to the slug derivation studied on its own
    derived       \* what it returned, and what it returned for that result

vars == <<pending, pc, body, userProblem, response, rawContent, art, projectPath,
          res, log, toolResults, dirs, files, faults, text, derived>>

-----------------------------------------------------------------------------
(* Bounds *)

NumReq == 2
MaxFaults == 1
MaxLen == 4

Reqs == 1..NumReq

-----------------------------------------------------------------------------
(* Characters and texts *)

Min(a, b) == IF a <= b THEN a ELSE b

\* the element of a one-element set: Only({ F(x) : x \in {e} }) is F(e) with
\* e evaluated once
Only(S) == CHOOSE x \in S : TRUE

Tick == "~"
LowerCase == "abcdefghijklmnopqrstuvwxyz"
UpperCase == "ABCDEFGHIJKLMNOPQRSTUVWXYZ"
Digits == "0123456789"

CharAt(s, i) == SubSeq(s, i, i)

Chars(s) == { CharAt(s, i) : i \in 1..Len(s) }

AlnumChars == Chars(LowerCase) \cup Chars(Digits)
UpperChars == Chars(UpperCase)

IndexIn(s, c) == CHOOSE i \in 1..Len(s) : CharAt(s, i) = c

\* String.prototype.toLowerCase on one character
LowerChar(c) == IF c \in UpperChars THEN CharAt(LowerCase, IndexIn(UpperCase, c)) ELSE c

\* The texts are rewritten by halves, so that the depth of the recursion
\* stays logarithmic in their length.
RECURSIVE LowerRange(_, _, _)
LowerRange(s, lo, hi) ==
    IF lo > hi THEN ""
    ELSE IF lo = hi THEN LowerChar(CharAt(s, lo))
    ELSE LowerRange(s, lo, (lo + hi) \div 2) \o LowerRange(s, ((lo + hi) \div 2) + 1, hi)

toLowerCase(s) == LowerRange(s, 1, Len(s))

\* what s.replace(/[^a-z0-9]+/g, '-') leaves of the character at i: itself
\* when alphanumeric, '-' when it opens a run of other characters, nothing
\* when it continues one
ReplacedAt(s, i) ==
    IF CharAt(s, i) \in AlnumChars THEN CharAt(s, i)
    ELSE IF i > 1 /\ CharAt(s, i - 1) \notin AlnumChars THEN ""
    ELSE "-"

RECURSIVE ReplaceRange(_, _, _)
ReplaceRange(s, lo, hi) ==
    IF lo > hi THEN ""
    ELSE IF lo = hi THEN ReplacedAt(s, lo)
    ELSE ReplaceRange(s, lo, (lo + hi) \div 2) \o ReplaceRange(s, ((lo + hi) \div 2) + 1, hi)

\* s.replace(/[^a-z0-9]+/g, '-')
ReplaceRuns(s) == ReplaceRange(s, 1, Len(s))

\* s.replace(/^-*|-*$/g, ''): what lies between the first and the last
\* character other than '-'
\* only the leading separators are stripped
StripLeading(s) ==
    LET keep == { i \in 1..Len(s) : CharAt(s, i) # "-" }
    IN  IF keep = {} THEN ""
        ELSE SubSeq(s, CHOOSE i \in keep : \A j \in keep : i <= j, Len(s))

StripEdges(s) ==
    LET keep == { i \in 1..Len(s) : CharAt(s, i) # "-" }
    IN  IF keep = {} THEN ""
        ELSE SubSeq(s, CHOOSE i \in keep : \A j \in keep : i <= j,
                       CHOOSE i \in keep : \A j \in keep : i >= j)

Fallback == "generated-website"

\* server.js:131
Slug(t) ==
    LET s == StripEdges(ReplaceRuns(toLowerCase(t)))
    IN  IF s = "" THEN Fallback ELSE s

-----------------------------------------------------------------------------
(* Slug derivation on its own: every text over SlugAlphabet up to MaxLen *)

SlugAlphabet == {"a", "B", "7", "-", " ", "!"}

RECURSIVE TextsOfLen(_)
TextsOfLen(n) ==
    IF n = 0 THEN {""} ELSE { c \o t : c \in SlugAlphabet, t \in TextsOfLen(n - 1) }

Texts == UNION { TextsOfLen(n) : n \in 0..MaxLen } \cup {"My Cool Site!!", Fallback}

-----------------------------------------------------------------------------
(* JavaScript values: undefined, and what JSON.parse produces.  s holds the *)
(* text of a string or the digits of a number, kv the members <<key, value>>*)
(* of an object or the elements of an array.                                *)

JV(t, s, kv) == [t |-> t, s |-> s, kv |-> kv]
Undefined == JV("undefined", "", <<>>)
JNull == JV("null", "", <<>>)
JStr(s) == JV("string", s, <<>>)

IsString(v) == v.t = "string"

\* ToBoolean, as used by `x || ''`, `if (jsContent)` and `!prompt`
\* only a missing value is falsy
Defined(v) == v.t \notin {"undefined", "null"}

Truthy(v) ==
    CASE v.t \in {"undefined", "null", "false"} -> FALSE
      [] v.t = "string" -> v.s # ""
      [] v.t = "number" -> v.s \notin {"0", "-0"}
      [] OTHER -> TRUE

\* the value as it is, without the default
AsIs(v) == v

\* x || ''
OrEmpty(v) == IF Truthy(v) THEN v ELSE JStr("")

\* obj[key] = val while an object is read: a repeated key keeps its place
\* and takes the later value
Put(kv, key, val) ==
    IF \E i \in 1..Len(kv) : kv[i][1] = key
    THEN [i \in 1..Len(kv) |-> IF kv[i][1] = key THEN <<key, val>> ELSE kv[i]]
    ELSE Append(kv, <<key, val>>)

\* v[key]: undefined for a missing member and for strings, numbers,
\* booleans and arrays (none has a property named html, css, js, ...)
Get(v, key) ==
    IF v.t = "object" /\ \E i \in 1..Len(v.kv) : v.kv[i][1] = key
    THEN v.kv[CHOOSE i \in 1..Len(v.kv) : v.kv[i][1] = key][2]
    ELSE Undefined

\* v[0]
First(v) == IF v.t = "array" /\ Len(v.kv) > 0 THEN v.kv[1] ELSE Undefined

\* reading a property of undefined or null throws a TypeError
Nullish(v) == v.t \in {"undefined", "null"}

-----------------------------------------------------------------------------
(* JSON.parse (ECMA-404), by recursive descent over the characters.  A      *)
(* result is [ok, v, p]: p is the position after the value.  \uXXXX and \b  *)
(* escapes are left out: no text of the model contains them.                *)

WsChars == {" ", "\t", "\n", "\r"}
ControlChars == {"\t", "\n", "\r", "\f"}
DigitChars == Chars(Digits)

Fail == [ok |-> FALSE, v |-> Undefined, p |-> 0]
Ok(v, p) == [ok |-> TRUE, v |-> v, p |-> p]

At(s, p) == IF p >= 1 /\ p <= Len(s) THEN CharAt(s, p) ELSE ""

StartsWithAt(s, p, pat) ==
    p + Len(pat) - 1 <= Len(s) /\ SubSeq(s, p, p + Len(pat) - 1) = pat

\* the first position from p on whose character is in set (in = TRUE) or
\* is not in set (in = FALSE); Len(s) + 1 when there is none.  The text is
\* scanned sixteen characters at a time.
RECURSIVE Scan(_, _, _, _)
Scan(s, p, set, in) ==
    LET hi == Min(p + 15, Len(s))
        hits == { q \in p..hi : (CharAt(s, q) \in set) = in }
    IN  IF hits # {} THEN CHOOSE q \in hits : \A j \in hits : q <= j
        ELSE IF hi >= Len(s) THEN Len(s) + 1
        ELSE Scan(s, hi + 1, set, in)

SkipWs(s, p) == IF At(s, p) \in WsChars THEN Scan(s, p, WsChars, FALSE) ELSE p

SkipDigits(s, p) == IF At(s, p) \in DigitChars THEN Scan(s, p, DigitChars, FALSE) ELSE p

Unescape(c) ==
    CASE c = "n" -> "\n"
      [] c = "t" -> "\t"
      [] c = "r" -> "\r"
      [] c = "f" -> "\f"
      [] OTHER -> c

\* how many backslashes end at q
RECURSIVE BackslashRun(_, _)
BackslashRun(s, q) == IF At(s, q) = "\\" THEN 1 + BackslashRun(s, q - 1) ELSE 0

\* the quote that closes the string literal whose characters start at p:
\* the first one no backslash escapes; Len(s) + 1 when there is none
ClosingQuote(s, p) ==
    Only({ IF quotes = {} THEN Len(s) + 1 ELSE CHOOSE q \in quotes : \A j \in quotes : q <= j
           : quotes \in {{ q \in p..Len(s) :
                             CharAt(s, q) = "\"" /\ BackslashRun(s, q - 1) % 2 = 0 }} })

\* where the escapes of s[lo..hi] start
EscapeStarts(s, lo, hi) ==
    { k \in lo..hi : CharAt(s, k) = "\\" /\ BackslashRun(s, k - 1) % 2 = 0 }

EscapeChars == {"\"", "\\", "/", "n", "t", "r", "f"}

\* the characters s[lo..hi] of a string literal stand for
RECURSIVE Decode(_, _, _, _)
Decode(s, lo, hi, starts) ==
    IF lo > hi THEN ""
    ELSE IF starts \cap ((lo - 1)..hi) = {} THEN SubSeq(s, lo, hi)
    ELSE IF lo = hi THEN
        (IF lo \in starts THEN ""
         ELSE IF (lo - 1) \in starts THEN Unescape(CharAt(s, lo))
         ELSE CharAt(s, lo))
    ELSE Decode(s, lo, (lo + hi) \div 2, starts) \o Decode(s, ((lo + hi) \div 2) + 1, hi, starts)

\* a string literal whose characters start at p (after the opening quote)
ParseString(s, p) ==
    Only({ IF q > Len(s) \/ \E k \in p..(q - 1) : CharAt(s, k) \in ControlChars THEN Fail
           ELSE Only({ IF \E k \in starts : At(s, k + 1) \notin EscapeChars THEN Fail
                       ELSE Ok(JStr(Decode(s, p, q - 1, starts)), q + 1)
                       : starts \in {EscapeStarts(s, p, q - 1)} })
           : q \in {ClosingQuote(s, p)} })

\* -?(0|[1-9][0-9]*)(\.[0-9]+)?([eE][+-]?[0-9]+)?
ParseNumber(s, p) ==
    LET i == IF At(s, p) = "-" THEN p + 1 ELSE p
        j == IF At(s, i) = "0" THEN i + 1 ELSE SkipDigits(s, i)
        k == IF At(s, j) = "." THEN SkipDigits(s, j + 1) ELSE j
        e == IF At(s, k) \in {"e", "E"}
             THEN (IF At(s, k + 1) \in {"+", "-"} THEN k + 2 ELSE k + 1)
             ELSE k
        n == IF e = k THEN k ELSE SkipDigits(s, e)
    IN  IF j = i \/ (At(s, j) = "." /\ k = j + 1) \/ (e # k /\ n = e)
        THEN Fail
        ELSE Ok(JV("number", SubSeq(s, p, n - 1), <<>>), n)

RECURSIVE ParseValue(_, _), ParseMembers(_, _, _), ParseElements(_, _, _)

\* a value at p (white space already skipped)
ParseValue(s, p) ==
    Only({ IF c = "{" THEN
               (IF At(s, q) = "}" THEN Ok(JV("object", "", <<>>), q + 1)
                ELSE ParseMembers(s, q, <<>>))
           ELSE IF c = "[" THEN
               (IF At(s, q) = "]" THEN Ok(JV("array", "", <<>>), q + 1)
                ELSE ParseElements(s, q, <<>>))
           ELSE IF c = "\"" THEN ParseString(s, p + 1)
           ELSE IF c = "-" \/ c \in DigitChars THEN ParseNumber(s, p)
           ELSE IF StartsWithAt(s, p, "true") THEN Ok(JV("true", "", <<>>), p + 4)
           ELSE IF StartsWithAt(s, p, "false") THEN Ok(JV("false", "", <<>>), p + 5)
           ELSE IF StartsWithAt(s, p, "null") THEN Ok(JNull, p + 4)
           ELSE Fail
         : c \in {At(s, p)}, q \in {SkipWs(s, p + 1)} })

\* what follows a member or an element that ends before q
AfterMember(s, q, acc) ==
    IF At(s, q) = "}" THEN Ok(JV("object", "", acc), q + 1)
    ELSE IF At(s, q) = "," THEN ParseMembers(s, SkipWs(s, q + 1), acc)
    ELSE Fail

AfterElement(s, q, acc) ==
    IF At(s, q) = "]" THEN Ok(JV("array", "", acc), q + 1)
    ELSE IF At(s, q) = "," THEN ParseElements(s, SkipWs(s, q + 1), acc)
    ELSE Fail

MemberValue(s, key, colon, acc) ==
    IF ~key.ok \/ At(s, colon) # ":" THEN Fail
    ELSE Only({ IF ~val.ok THEN Fail
                ELSE Only({ AfterMember(s, q, more)
                            : q \in {SkipWs(s, val.p)}, more \in {Put(acc, key.v.s, val.v)} })
              : val \in {ParseValue(s, SkipWs(s, colon + 1))} })

\* "key" : value , ... } from p (white space already skipped)
ParseMembers(s, p, acc) ==
    IF At(s, p) # "\"" THEN Fail
    ELSE Only({ Only({ MemberValue(s, key, colon, acc) : colon \in {SkipWs(s, key.p)} })
              : key \in {ParseString(s, p + 1)} })

\* value , ... ] from p (white space already skipped)
ParseElements(s, p, acc) ==
    Only({ IF ~val.ok THEN Fail
           ELSE Only({ AfterElement(s, q, more)
                       : q \in {SkipWs(s, val.p)}, more \in {Append(acc, val.v)} })
         : val \in {ParseValue(s, p)} })

\* JSON.parse(s): [ok |-> FALSE] stands for the SyntaxError it throws
JSONparse(s) ==
    LET r == ParseValue(s, SkipWs(s, 1)) IN
    IF r.ok /\ SkipWs(s, r.p) = Len(s) + 1 THEN r ELSE Fail

-----------------------------------------------------------------------------
(* JSON.stringify of a parsed value, and of a text (the provider's side)   *)

QuoteChar(c) ==
    CASE c = "\"" -> "\\\""
      [] c = "\\" -> "\\\\"
      [] c = "\n" -> "\\n"
      [] c = "\t" -> "\\t"
      [] c = "\r" -> "\\r"
      [] c = "\f" -> "\\f"
      [] OTHER -> c

RECURSIVE QuoteRange(_, _, _)
QuoteRange(s, lo, hi) ==
    IF lo > hi THEN ""
    ELSE IF lo = hi THEN QuoteChar(CharAt(s, lo))
    ELSE QuoteRange(s, lo, (lo + hi) \div 2) \o QuoteRange(s, ((lo + hi) \div 2) + 1, hi)

Quote(s) == QuoteRange(s, 1, Len(s))

Quoted(s) == "\"" \o Quote(s) \o "\""

RECURSIVE JSONstringify(_), JoinMembers(_, _), JoinElements(_, _)
JSONstringify(v) ==
    CASE v.t = "string" -> Quoted(v.s)
      [] v.t = "number" -> v.s
      [] v.t = "object" -> "{" \o JoinMembers(v.kv, 1) \o "}"
      [] v.t = "array" -> "[" \o JoinElements(v.kv, 1) \o "]"
      [] OTHER -> v.t

JoinMembers(kv, i) ==
    IF i > Len(kv) THEN ""
    ELSE Quoted(kv[i][1]) \o ":" \o JSONstringify(kv[i][2])
         \o (IF i < Len(kv) THEN "," ELSE "") \o JoinMembers(kv, i + 1)

JoinElements(kv, i) ==
    IF i > Len(kv) THEN ""
    ELSE JSONstringify(kv[i])
         \o (IF i < Len(kv) THEN "," ELSE "") \o JoinElements(kv, i + 1)

-----------------------------------------------------------------------------
(* Text helpers of the handler *)

\* s.substring(0, n)
\* no truncation
Whole(s, n) == s

Prefix(s, n) == SubSeq(s, 1, Min(n, Len(s)))

\* s.indexOf(pat, from), 1-based; 0 when pat does not occur at or after from
IndexOfFrom(s, pat, from) ==
    LET hits == { k \in from..(Len(s) + 1 - Len(pat)) :
                    CharAt(s, k) = Head(pat) /\ SubSeq(s, k, k + Len(pat) - 1) = pat }
    IN  IF hits = {} THEN 0 ELSE CHOOSE k \in hits : \A j \in hits : k <= j

Contains(s, pat) == IndexOfFrom(s, pat, 1) # 0

\* the last position up to p that holds c, 0 when there is none; the text
\* is scanned backwards, sixteen characters at a time
RECURSIVE ScanBack(_, _, _)
ScanBack(s, p, c) ==
    LET lo == IF p > 16 THEN p - 15 ELSE 1
        hits == { k \in lo..p : CharAt(s, k) = c }
    IN  IF hits # {} THEN CHOOSE k \in hits : \A j \in hits : k >= j
        ELSE IF lo = 1 THEN 0
        ELSE ScanBack(s, lo - 1, c)

\* s.lastIndexOf('/'), 1-based; 0 when there is none
LastSlash(s) == ScanBack(s, Len(s), "/")

\* a non-negative integer in decimal, as a template literal prints it
RECURSIVE Decimal(_)
Decimal(n) ==
    IF n < 10 THEN CharAt(Digits, n + 1)
    ELSE Decimal(n \div 10) \o CharAt(Digits, (n % 10) + 1)

\* `${v}` for the values a request body can hold
ToText(v) ==
    CASE v.t = "string" -> v.s
      [] v.t = "number" -> v.s
      [] OTHER -> v.t

FenceOpen == Tick \o Tick \o Tick \o "json\n"
FenceClose == "\n" \o Tick \o Tick \o Tick

\* rawContent.match(/```json\n([\s\S]*?)\n```/): the leftmost opening fence
\* that some closing fence follows, and the nearest such closing fence.
\* [found |-> FALSE] is null; group is jsonMatch[1].
jsonMatch(raw) ==
    LET i == IndexOfFrom(raw, FenceOpen, 1)
        j == IF i = 0 THEN 0 ELSE IndexOfFrom(raw, FenceClose, i + Len(FenceOpen))
    IN  IF j = 0 THEN [found |-> FALSE, group |-> ""]
        ELSE [found |-> TRUE, group |-> SubSeq(raw, i + Len(FenceOpen), j - 1)]

ExcerptLen == 200

\* server.js:195
Compose(prompt, theme) ==
    "Create a website for the following description: \"" \o ToText(prompt)
    \o "\". Use a \"" \o ToText(theme)
    \o "\" theme. Ensure all necessary HTML, CSS, and JavaScript code is provided in the final structured JSON response."

BaseDir == "./generated_websites"

\* server.js:132
\* the text is used as the folder name as it is
RawPath(problem) == BaseDir \o "/" \o problem

ProjectPath(problem) == BaseDir \o "/" \o Slug(problem)

\* server.js:135
MkdirCommand(path) == "mkdir " \o path

IndexHtml == "index.html"
StyleCss == "style.css"
ScriptJs == "script.js"

FilePath(path, name) == path \o "/" \o name

(* The messages of the responses *)

PromptRequired == "Prompt is required."
SuccessMessage == "Website code generated and files created successfully!"
BlockNotFoundPrefix == "AI response format error: JSON block not found in model's output. Raw content: "
ParseErrorPrefix == "AI response format error: Could not parse JSON from model. Raw content: "
GenerationErrorPrefix == "Error during AI generation: "
ApiErrorMarker == "DeepSeek API error"

\* server.js:166
BlockNotFoundMessage(raw) == BlockNotFoundPrefix \o Prefix(raw, ExcerptLen) \o "..."

\* server.js:162
ParseErrorMessage(raw) == ParseErrorPrefix \o Prefix(raw, ExcerptLen) \o "..."

\* server.js:171
GenerationErrorMessage(m) == GenerationErrorPrefix \o m

\* server.js:111
ApiErrorMessage(status, errorData) ==
    ApiErrorMarker \o " (" \o Decimal(status) \o "): " \o JSONstringify(errorData)

(* The messages of the errors the runtime throws.  Their wording depends on *)
(* the engine; V8's are used, the position V8 appends to the older          *)
(* SyntaxError wording is left out.                                         *)

FetchFailed == "fetch failed"
NotAFunction == "rawContent.match is not a function"
CannotRead(what, key) == "Cannot read properties of " \o what \o " (reading '" \o key \o "')"

SyntaxErrorMessages(s) ==
    IF SkipWs(s, 1) > Len(s) THEN {"Unexpected end of JSON input"}
    ELSE LET c == At(s, SkipWs(s, 1)) IN
         { "Unexpected token " \o c \o " in JSON",
           "Unexpected token '" \o c \o "', \"" \o Prefix(s, 10) \o "\" is not valid JSON" }

(* Responses: what res.status(code).json(body) sends.  code 0: none yet.   *)

NoResponse ==
    [code |-> 0, status |-> "", message |-> "",
     html |-> Undefined, css |-> Undefined, js |-> Undefined]

ErrorResponse(code, m) == [NoResponse EXCEPT !.code = code, !.status = "error", !.message = m]

\* server.js:152-158
SuccessResponse(a) ==
    [code |-> 200, status |-> "success", message |-> SuccessMessage,
     html |-> a.html, css |-> a.css, js |-> a.js]

NoArtifacts == [html |-> Undefined, css |-> Undefined, js |-> Undefined]

-----------------------------------------------------------------------------
(* The filesystem: dirs and files, keyed by the paths the code passes.     *)

\* filePath.substring(0, filePath.lastIndexOf('/'))
Parent(path) == LET k == LastSlash(path) IN IF k = 0 THEN "" ELSE SubSeq(path, 1, k - 1)

\* path and every directory above it
Ancestors(path) ==
    {path} \cup { SubSeq(path, 1, k - 1) : k \in { j \in 2..Len(path) : CharAt(path, j) = "/" } }

\* files is a set of <<path, content>>, one per regular file
FilePaths == { f[1] : f \in files }

Content(path) == (CHOOSE f \in files : f[1] = path)[2]

\* a file that exists is left as it is: the first writer wins
Kept(path, content) == IF path \in FilePaths THEN files ELSE files \cup {<<path, content>>}

Written(path, content) == { f \in files : f[1] # path } \cup {<<path, content>>}

Exists(path) == path \in dirs \/ path \in FilePaths

\* the words of a shell command line (split at spaces)
Words(s) ==
    LET cuts == {0, Len(s) + 1} \cup { k \in 1..Len(s) : CharAt(s, k) = " " }
        spans == { w \in cuts \X cuts :
                     w[1] < w[2] /\ \A d \in cuts : ~(w[1] < d /\ d < w[2]) }
    IN  { SubSeq(s, w[1] + 1, w[2] - 1) : w \in spans } \ {""}

\* the operands of `mkdir ...`
Operands(command) == Words(SubSeq(command, Len("mkdir ") + 1, Len(command)))

\* mkdir(1) without -p on one operand: "" when it creates the directory
MkdirErrno(path, fault) ==
    IF fault # "none" THEN fault
    ELSE IF Exists(path) THEN "EEXIST"
    ELSE IF Parent(path) \notin dirs THEN "ENOENT"
    ELSE ""

\* fs.mkdir(dir, {recursive: true}): "" when dir and its ancestors are
\* directories afterwards
MkdirpErrno(dir, fault) ==
    IF fault # "none" THEN fault
    ELSE IF \E a \in Ancestors(dir) : a \in FilePaths THEN "ENOTDIR"
    ELSE ""

\* fs.writeFile(path, content): "" when the file holds content afterwards
WriteErrno(path, content, fault) ==
    IF ~IsString(content) THEN "ERR_INVALID_ARG_TYPE"
    ELSE IF fault # "none" THEN fault
    ELSE IF path \in dirs THEN "EISDIR"
    ELSE IF Parent(path) \notin dirs THEN "ENOENT"
    ELSE ""

ErrnoText(code) ==
    CASE code = "EACCES" -> "permission denied"
      [] code = "EEXIST" -> "file already exists"
      [] code = "ENOENT" -> "no such file or directory"
      [] code = "ENOTDIR" -> "not a directory"
      [] code = "EISDIR" -> "illegal operation on a directory"
      [] code = "ENOSPC" -> "no space left on device"
      [] OTHER -> "The \"data\" argument must be of type string"

\* err.message of a failed fs call
FsErrorMessage(code, syscall, path) ==
    code \o ": " \o ErrnoText(code) \o ", " \o syscall \o " '" \o path \o "'"

(* What the two tools return; the caller drops it (server.js:135-147).     *)
(* The emoji that open these texts in the source are left out.             *)

\* server.js:33, 36
CommandResult(command, code) ==
    IF code = "" THEN "Success: Command executed successfully."
    ELSE "Error: Command failed: " \o command \o "\nmkdir: " \o ErrnoText(code) \o "\n"

\* server.js:47, 50
WriteResult(path, code, syscall) ==
    IF code = "" THEN "File \"" \o path \o "\" written successfully."
    ELSE "Error writing to \"" \o path \o "\": "
         \o FsErrorMessage(code, syscall, IF syscall = "mkdir" THEN Parent(path) ELSE path)

(* The log of a request: its calls, each with how it settled               *)
(* ("pending", "" for success, else the error code).                       *)

Call(op, arg) == [op |-> op, arg |-> arg, st |-> "pending"]

Settle(lg, st) == [lg EXCEPT ![Len(lg)].st = st]

At0(at, file) == [at |-> at, file |-> file]
Idle == At0("idle", "")
Done == At0("done", "")

\* the faults the environment may still inject
MayFail(codes) == {"none"} \cup (IF faults < MaxFaults THEN codes ELSE {})

Count(fault) == IF fault = "none" THEN faults ELSE faults + 1

-----------------------------------------------------------------------------
(* The handler, one action per continuation (server.js:187-205, 87-173)    *)

\* script.js is written before style.css
ScriptFirst(file, a) ==
    IF file = IndexHtml THEN ScriptJs
    ELSE IF file = ScriptJs THEN StyleCss
    ELSE ""

\* what follows writeFileContent for `file`, whose calls are logged in lg:
\* the next writeFileContent, or the success response (server.js:140-158)
NextFile(file, a) ==
    IF file = IndexHtml THEN StyleCss
    ELSE IF file = StyleCss /\ Truthy(a.js) THEN ScriptJs
    ELSE ""

\* entering writeFileContent({filePath}): fs.mkdir when `dir` is not empty,
\* else fs.writeFile at once (server.js:42-46)
Enter(path, file) ==
    LET dir == Parent(FilePath(path, file)) IN
    IF dir # ""
    THEN [pc |-> At0("mkdirp", file), call |-> Call("mkdirp", dir)]
    ELSE [pc |-> At0("write", file), call |-> Call("writeFile", FilePath(path, file))]

\* request r leaves writeFileContent for `file`, which returned `ret`
Leave(r, file, lg, ret) ==
    /\ toolResults' = [toolResults EXCEPT ![r] = Append(@, ret)]
    /\ IF NextFile(file, art[r]) = ""
       THEN /\ pc' = [pc EXCEPT ![r] = Done]
            /\ log' = [log EXCEPT ![r] = lg]
            /\ res' = [res EXCEPT ![r] = SuccessResponse(art[r])]
       ELSE LET next == Enter(projectPath[r], NextFile(file, art[r])) IN
            /\ pc' = [pc EXCEPT ![r] = next.pc]
            /\ log' = [log EXCEPT ![r] = Append(lg, next.call)]
            /\ UNCHANGED res

\* the error leaves generateWebsiteWithDeepSeek and the handler's catch
\* answers it (server.js:201-204)
Rethrow(r, m) ==
    /\ pc' = [pc EXCEPT ![r] = Done]
    /\ res' = [res EXCEPT ![r] =
                  ErrorResponse(500, "Failed to process website generation request: " \o m)]

\* request r ends with an error response of generateWebsiteWithDeepSeek
Reply(r, m) ==
    /\ pc' = [pc EXCEPT ![r] = Done]
    /\ res' = [res EXCEPT ![r] = ErrorResponse(200, m)]

\* app.post('/generate-website') up to the fetch call (server.js:187-199, 88)
Receive(r, prompts, themes) ==
    /\ r \in pending
    /\ pending' = pending \ {r}
    /\ \E p \in prompts, t \in themes :
        /\ body' = [body EXCEPT ![r] = [prompt |-> p, theme |-> t]]
        /\ IF ~Truthy(p)
           THEN /\ pc' = [pc EXCEPT ![r] = Done]
                /\ res' = [res EXCEPT ![r] = ErrorResponse(400, PromptRequired)]
                /\ UNCHANGED <<userProblem, log>>
           ELSE /\ pc' = [pc EXCEPT ![r] = At0("fetch", "")]
                /\ userProblem' = [userProblem EXCEPT ![r] = Compose(p, t)]
                /\ log' = [log EXCEPT ![r] = <<Call("fetch", Compose(p, t))>>]
                /\ UNCHANGED res
    /\ UNCHANGED <<response, rawContent, art, projectPath, toolResults, dirs, files,
                   faults, text, derived>>

\* await fetch(...) settles (server.js:88-106, 169-172)
FetchSettles(r, outcomes) ==
    /\ pc[r].at = "fetch"
    /\ \E o \in outcomes :
        IF o.kind = "reject"
        THEN /\ Reply(r, GenerationErrorMessage(FetchFailed))
             /\ log' = [log EXCEPT ![r] = Settle(@, "rejected")]
             /\ UNCHANGED response
        ELSE /\ pc' = [pc EXCEPT ![r] = At0("json", "")]
             /\ response' = [response EXCEPT ![r] = [status |-> o.status, text |-> o.text]]
             /\ log' = [log EXCEPT ![r] = Settle(@, "")]
             /\ UNCHANGED res
    /\ UNCHANGED <<pending, body, userProblem, rawContent, art, projectPath, toolResults,
                   dirs, files, faults, text, derived>>

\* every status passes
AnyStatus(status) == TRUE

\* response.ok
ResponseOk(status) == status >= 200 /\ status <= 299

\* data.choices[0].message.content and rawContent.match: "" when the reads
\* succeed, else the message of the TypeError thrown (server.js:115, 119)
ContentError(data) ==
    LET choices == Get(data, "choices")
        first == First(choices)
        message == Get(first, "message")
        content == Get(message, "content")
    IN  IF Nullish(choices) THEN CannotRead(choices.t, "0")
        ELSE IF Nullish(first) THEN CannotRead(first.t, "message")
        ELSE IF Nullish(message) THEN CannotRead(message.t, "content")
        ELSE IF Nullish(content) THEN CannotRead(content.t, "match")
        ELSE IF ~IsString(content) THEN NotAFunction
        ELSE ""

ContentOf(data) == Get(Get(First(Get(data, "choices")), "message"), "content").s

\* server.js:126-128
Artifacts(parsedOutput) ==
    [html |-> OrEmpty(Get(parsedOutput, "html")),
     css |-> OrEmpty(Get(parsedOutput, "css")),
     js |-> OrEmpty(Get(parsedOutput, "js"))]

\* the text was found and holds a block that parses: the artifacts are
\* taken and executeCommand is called (server.js:126-135)
Materialize(r, raw, parsedOutput, path) ==
    /\ rawContent' = [rawContent EXCEPT ![r] = raw]
    /\ art' = [art EXCEPT ![r] = Artifacts(parsedOutput)]
    /\ projectPath' = [projectPath EXCEPT ![r] = path]
    /\ log' = [log EXCEPT ![r] = Append(@, Call("exec", MkdirCommand(path)))]
    /\ pc' = [pc EXCEPT ![r] = At0("exec", "")]
    /\ UNCHANGED res

\* the reply text is searched for the block and the block is parsed; a
\* TypeError on reading parsedOutput (null) is caught with the SyntaxErrors
\* (server.js:119-128, 160-167)
Extract(r, raw) ==
    \E m \in {jsonMatch(raw)} :
        IF ~(m.found /\ m.group # "") THEN
            /\ Reply(r, BlockNotFoundMessage(raw))
            /\ rawContent' = [rawContent EXCEPT ![r] = raw]
            /\ UNCHANGED <<art, projectPath, log>>
        ELSE \E out \in {JSONparse(m.group)} :
            IF ~out.ok \/ Nullish(out.v) THEN
                /\ Reply(r, ParseErrorMessage(raw))
                /\ rawContent' = [rawContent EXCEPT ![r] = raw]
                /\ UNCHANGED <<art, projectPath, log>>
            ELSE \E path \in {ProjectPath(userProblem[r])} :
                Materialize(r, raw, out.v, path)

\* await response.json() settles, and the code runs up to executeCommand
\* (server.js:108-135, 160-172)
JsonSettles(r) ==
    /\ pc[r].at = "json"
    /\ \E parsed \in {JSONparse(response[r].text)} :
       IF ~parsed.ok THEN
           /\ \E e \in SyntaxErrorMessages(response[r].text) : Reply(r, GenerationErrorMessage(e))
           /\ UNCHANGED <<rawContent, art, projectPath, log>>
       ELSE IF ~ResponseOk(response[r].status) THEN
           /\ Reply(r, GenerationErrorMessage(ApiErrorMessage(response[r].status, parsed.v)))
           /\ UNCHANGED <<rawContent, art, projectPath, log>>
       ELSE \E err \in {ContentError(parsed.v)} :
           IF err # "" THEN
               /\ Reply(r, GenerationErrorMessage(err))
               /\ UNCHANGED <<rawContent, art, projectPath, log>>
           ELSE \E raw \in {ContentOf(parsed.v)} : Extract(r, raw)
    /\ UNCHANGED <<pending, body, userProblem, response, toolResults, dirs, files, faults,
                   text, derived>>

\* await executeCommand(...) settles: the shell ran mkdir on every operand;
\* the command fails when one of them could not be made.  Whatever it
\* returns, writeFileContent for index.html is entered (server.js:26-38, 135-140)
ExecSettles(r) ==
    /\ pc[r].at = "exec"
    /\ \E fault \in MayFail({"EACCES"}) :
        LET command == log[r][Len(log[r])].arg
            operands == Operands(command)
            made == { d \in operands : MkdirErrno(d, fault) = "" }
            failed == operands \ made
            code == IF failed = {} THEN "" ELSE MkdirErrno(CHOOSE d \in failed : TRUE, fault)
            next == Enter(projectPath[r], IndexHtml)
        IN  /\ dirs' = dirs \cup made
            /\ faults' = Count(fault)
            /\ toolResults' = [toolResults EXCEPT ![r] = Append(@, CommandResult(command, code))]
            /\ log' = [log EXCEPT ![r] = Append(Settle(@, code), next.call)]
            /\ pc' = [pc EXCEPT ![r] = next.pc]
    /\ UNCHANGED <<pending, body, userProblem, response, rawContent, art, projectPath, res,
                   files, text, derived>>

\* the content writeFileContent was given for `file`
ContentFor(r, file) ==
    IF file = IndexHtml THEN art[r].html ELSE IF file = StyleCss THEN art[r].css ELSE art[r].js

\* await fs.mkdir(dir, {recursive: true}) settles inside writeFileContent:
\* fs.writeFile is called, or the error is caught and the text returned
\* (server.js:42-51)
MkdirpSettles(r) ==
    /\ pc[r].at = "mkdirp"
    /\ \E fault \in MayFail({"EACCES"}) :
        LET file == pc[r].file
            path == FilePath(projectPath[r], file)
            dir == log[r][Len(log[r])].arg
            code == MkdirpErrno(dir, fault)
        IN  /\ faults' = Count(fault)
            /\ IF code = ""
               THEN /\ dirs' = dirs \cup Ancestors(dir)
                    /\ pc' = [pc EXCEPT ![r] = At0("write", file)]
                    /\ log' = [log EXCEPT ![r] = Append(Settle(@, ""), Call("writeFile", path))]
                    /\ UNCHANGED <<res, toolResults>>
               ELSE /\ UNCHANGED dirs
                    /\ Leave(r, file, Settle(log[r], code), WriteResult(path, code, "mkdir"))
    /\ UNCHANGED <<pending, body, userProblem, response, rawContent, art, projectPath,
                   files, text, derived>>

\* await fs.writeFile(filePath, content) settles inside writeFileContent.
\* A write that runs out of space has already truncated the file; one that
\* is refused leaves it as it was (server.js:46-51)
WriteSettles(r) ==
    /\ pc[r].at = "write"
    /\ \E fault \in MayFail({"EACCES", "ENOSPC"}) :
        LET file == pc[r].file
            path == FilePath(projectPath[r], file)
            code == WriteErrno(path, ContentFor(r, file), fault)
        IN  /\ faults' = Count(fault)
            /\ files' = IF code = "" THEN Written(path, ContentFor(r, file).s)
                        ELSE IF code = "ENOSPC" THEN Written(path, "")
                        ELSE files
            /\ Leave(r, file, Settle(log[r], code), WriteResult(path, code, "open"))
    /\ UNCHANGED <<pending, body, userProblem, response, rawContent, art, projectPath,
                   dirs, text, derived>>

-----------------------------------------------------------------------------
(* The inputs: request bodies, provider outcomes, initial filesystems      *)

ExamplePrompt == JStr("a red button page")
ExampleTheme == JStr("minimal")

\* missing, empty, the example of the specification, and one with the same slug
Prompts == {Undefined, JStr(""), ExamplePrompt, JStr("A RED button-page!")}
Themes == {ExampleTheme, Undefined}

Member(key, value) == Quoted(key) \o ":" \o Quoted(value)

RECURSIVE Joined(_)
Joined(members) ==
    IF Len(members) = 0 THEN ""
    ELSE IF Len(members) = 1 THEN members[1]
    ELSE members[1] \o "," \o Joined(Tail(members))

\* a key of the object: the member as written, and the text it stands for
Absent == [m |-> <<>>, v |-> ""]
Choice(key, value) == [m |-> <<Member(key, value)>>, v |-> value]

\* the text of an object with the chosen keys (x: a member the handler does
\* not read), and the artifacts it stands for
ObjectCase(h, c, j, x) ==
    [text |-> "{" \o Joined(h.m \o c.m \o j.m \o x) \o "}", html |-> h.v, css |-> c.v, js |-> j.v]

ExampleCase == ObjectCase(Choice("html", "<h1>Hi</h1>"), Choice("css", "h1{color:red}"),
                          Choice("js", ""), <<>>)
FullCase == ObjectCase(Choice("html", "<p>x</p>"), Choice("css", "p{}"), Choice("js", "go()"), <<>>)
ExampleJson == ExampleCase.text
FullJson == FullCase.text

\* every choice of keys present, empty, or absent; one value needs escapes
ObjectCases ==
    { ObjectCase(h, c, j, x) :
        h \in {Absent, Choice("html", ""), Choice("html", "<h1>Hi</h1>"),
               Choice("html", "<a href=\"x\">\n</a>")},
        c \in {Absent, Choice("css", "h1{color:red}")},
        j \in {Absent, Choice("js", ""), Choice("js", "go()")},
        x \in {<<>>, <<Member("note", "x")>>, <<Quoted("html5") \o ": 1">>} }
    \cup {ExampleCase, FullCase, [FullCase EXCEPT !.text = " " \o FullJson \o "\n"]}

\* fence contents that are no object
BrokenTexts ==
    {"", " ", "{", "{\"html\":\"<h1>", "hello", "null", "123", "[]", "\"text\"", "true",
     "{\"html\":\"a\",}", "{'html':'a'}"}

Block(content) == FenceOpen \o content \o FenceClose

RECURSIVE Repeat(_, _)
Repeat(c, n) ==
    IF n = 0 THEN ""
    ELSE IF n = 1 THEN c
    ELSE Repeat(c, n \div 2) \o Repeat(c, n - (n \div 2))

Prose == "Here is the code:\n"

\* texts around a fence; one is longer than the excerpt of the error messages
Befores == {"", Prose, Repeat("x", ExcerptLen + 1)}
Afters == {"", "\nEnjoy!"}

\* the body of a completion whose text is raw
CompletionBody(raw) ==
    "{\"id\":\"gen-1\",\"choices\":[{\"index\":0,\"message\":{\"role\":\"assistant\",\"content\":"
    \o Quoted(raw) \o "}}]}"

\* a reply of the model, the body that carries it, what kind of reply it
\* is by construction, and the artifacts its good block stands for
ReplyCase(kind, raw, o) ==
    [kind |-> kind, raw |-> raw, body |-> CompletionBody(raw),
     html |-> o.html, css |-> o.css, js |-> o.js]

NoObject == [text |-> "", html |-> "", css |-> "", js |-> ""]

\* "good": the first fenced block is an object
GoodReplies ==
    { ReplyCase("good", Block(o.text), o) : o \in ObjectCases }
    \cup { ReplyCase("good", b \o Block(o.text) \o a, o) :
             b \in Befores, a \in Afters, o \in {ExampleCase, FullCase} }
    \cup { ReplyCase("good", Block(ExampleJson) \o "\n" \o Block(c), ExampleCase) :
             c \in {"hello", "", FullJson} }

\* "broken": one fenced block, whose content is no object
BrokenReplies ==
    { ReplyCase("broken", b \o Block(c) \o a, NoObject) :
        b \in Befores, a \in Afters, c \in BrokenTexts }

\* "shadowed": a fenced block that is an object, after a broken block or
\* after an opening fence
ShadowedReplies ==
    { ReplyCase("shadowed", Block(c) \o "\n" \o Block(FullJson), FullCase) : c \in {"hello", "{", ""} }
    \cup { ReplyCase("shadowed", FenceOpen \o Prose \o Block(FullJson), FullCase) }

\* "unfenced": no opening fence with its tag and newline, or no newline and
\* closing fence after it
UnfencedReplies ==
    { ReplyCase("unfenced", b \o t \o a, NoObject) :
        b \in Befores, a \in Afters,
        t \in {"", FullJson, Tick \o Tick \o Tick \o "json" \o FullJson \o FenceClose,
               FenceOpen \o FullJson \o Tick \o Tick \o Tick,
               Tick \o Tick \o Tick \o "\n" \o FullJson \o FenceClose,
               FenceOpen \o Tick \o Tick \o Tick, FenceClose \o FenceOpen \o FullJson} }
    \cup { ReplyCase("unfenced", Repeat("y", n), NoObject) :
             n \in {ExcerptLen - 1, ExcerptLen, ExcerptLen + 1} }

ReplyCases == GoodReplies \cup BrokenReplies \cup ShadowedReplies \cup UnfencedReplies

Rejected == [kind |-> "reject", status |-> 0, text |-> ""]
Responded(status, t) == [kind |-> "response", status |-> status, text |-> t]

ErrorStatuses == {400, 401, 404, 429, 500, 502, 503}

\* error bodies: JSON of several shapes (one is a whole completion), and
\* texts that are no JSON
ErrorBodies ==
    {"{\"error\":{\"message\":\"No auth credentials found\",\"code\":401}}", "{}", "null",
     "\"rate limited\"", CompletionBody(Block(FullJson)),
     "", "<html>502 Bad Gateway</html>", "upstream error"}

\* bodies of a successful status that lack the text field
MalformedBodies ==
    {"{}", "{\"choices\":[]}", "{\"choices\":[{}]}", "{\"choices\":[{\"message\":{}}]}",
     "{\"choices\":[{\"message\":{\"content\":null}}]}",
     "{\"choices\":[{\"message\":{\"content\":5}}]}", "{\"choices\":null}",
     "{\"error\":{\"message\":\"overloaded\"}}", "<html>ok</html>", ""}

AnyOutcomes ==
    {Rejected}
    \cup { Responded(st, b) : st \in ErrorStatuses, b \in ErrorBodies }
    \cup { Responded(st, b) : st \in {200, 201}, b \in MalformedBodies }
    \cup { Responded(200, c.body) : c \in ReplyCases }

SomeOutcomes ==
    {Rejected, Responded(200, CompletionBody(Block(ExampleJson))),
     Responded(200, CompletionBody(Block(FullJson)))}

ExamplePath == ProjectPath(Compose(ExamplePrompt, ExampleTheme))

\* a fresh checkout, one where generated_websites exists, and one where an
\* earlier request has left the example's project
InitialFilesystems ==
    { [dirs |-> {"."}, files |-> {}],
      [dirs |-> {".", BaseDir}, files |-> {}],
      [dirs |-> {".", BaseDir, ExamplePath},
       files |-> {<<FilePath(ExamplePath, IndexHtml), "<old>">>,
                  <<FilePath(ExamplePath, ScriptJs), "old()">>}] }

-----------------------------------------------------------------------------
(* Specifications *)

InitWith(clients, filesystems) ==
    /\ pending = clients
    /\ pc = [r \in Reqs |-> Idle]
    /\ body = [r \in Reqs |-> [prompt |-> Undefined, theme |-> Undefined]]
    /\ userProblem = [r \in Reqs |-> ""]
    /\ response = [r \in Reqs |-> [status |-> 0, text |-> ""]]
    /\ rawContent = [r \in Reqs |-> ""]
    /\ art = [r \in Reqs |-> NoArtifacts]
    /\ projectPath = [r \in Reqs |-> ""]
    /\ res = [r \in Reqs |-> NoResponse]
    /\ log = [r \in Reqs |-> <<>>]
    /\ toolResults = [r \in Reqs |-> <<>>]
    /\ \E fs \in filesystems : dirs = fs.dirs /\ files = fs.files
    /\ faults = 0
    /\ derived = <<>>

\* NumReq clients, each sending one request; the handlers interleave at
\* their awaits
Init == InitWith(Reqs, InitialFilesystems) /\ text = ""

Next ==
    \E r \in Reqs :
        \/ Receive(r, Prompts, {ExampleTheme})
        \/ FetchSettles(r, SomeOutcomes)
        \/ JsonSettles(r)
        \/ ExecSettles(r)
        \/ MkdirpSettles(r)
        \/ WriteSettles(r)

Spec == Init /\ [][Next]_vars

\* one request, with every provider outcome of the model
SingleInit == InitWith({1}, InitialFilesystems) /\ text = ""

SingleNext ==
    \/ Receive(1, {Undefined, JStr(""), ExamplePrompt}, {ExampleTheme})
    \/ FetchSettles(1, AnyOutcomes)
    \/ JsonSettles(1)
    \/ ExecSettles(1)
    \/ MkdirpSettles(1)
    \/ WriteSettles(1)

SingleSpec == SingleInit /\ [][SingleNext]_vars

\* the requests one after another: a request is received when the ones
\* before it have been answered.  The provider outcomes are one of each kind.
SerialOutcomes ==
    SomeOutcomes
    \cup {Responded(401, "{\"error\":{\"message\":\"No auth credentials found\",\"code\":401}}"),
          Responded(502, "<html>502 Bad Gateway</html>"),
          Responded(200, "{}"),
          Responded(200, "<html>ok</html>"),
          Responded(200, CompletionBody("no code today")),
          Responded(200, CompletionBody(Block("{"))),
          Responded(200, CompletionBody(Block("null"))),
          Responded(200, CompletionBody(Block("[]"))),
          Responded(200, CompletionBody(Block("{\"html\":5,\"js\":true}")))}

SerialInit == InitWith(Reqs, InitialFilesystems) /\ text = ""

InOrder(r) == \A q \in Reqs : q < r => pc[q] = Done

ReceiveInOrder(r) ==
    InOrder(r) /\ Receive(r, {Undefined, ExamplePrompt, JStr("A RED button-page!")}, {ExampleTheme})

SerialNext ==
    \E r \in Reqs :
        \/ ReceiveInOrder(r)
        \/ FetchSettles(r, SerialOutcomes)
        \/ JsonSettles(r)
        \/ ExecSettles(r)
        \/ MkdirpSettles(r)
        \/ WriteSettles(r)

SerialSpec == SerialInit /\ [][SerialNext]_vars

\* one request whose description and theme try to leave the base directory
\* or to add to the shell command
HostilePrompts ==
    {ExamplePrompt, JStr("../../etc/passwd"), JStr("x; rm -rf ~ #"), JStr("$(id) && a | b > c"),
     JStr(Tick \o "id" \o Tick), JStr("a/b\\c d"), JStr("line\nbreak\ttab"), JStr("'\" *?"),
     JStr(".."), JStr("/"), JV("number", "5", <<>>)}

HostileThemes == {ExampleTheme, Undefined, JStr("../x -p /tmp/y")}

PathInit ==
    /\ InitWith({1}, {[dirs |-> {"."}, files |-> {}], [dirs |-> {".", BaseDir}, files |-> {}]})
    /\ text = ""

PathNext ==
    \/ Receive(1, HostilePrompts, HostileThemes)
    \/ FetchSettles(1, SomeOutcomes)
    \/ JsonSettles(1)
    \/ ExecSettles(1)
    \/ MkdirpSettles(1)
    \/ WriteSettles(1)

PathSpec == PathInit /\ [][PathNext]_vars

\* the slug derivation alone, on every text of Texts: it is applied to the
\* text, and once more to its own result
SlugInit ==
    /\ InitWith({}, {[dirs |-> {"."}, files |-> {}]})
    /\ text \in Texts

Slugify ==
    /\ Len(derived) < 2
    /\ derived' = Append(derived, Slug(IF derived = <<>> THEN text ELSE derived[1]))
    /\ UNCHANGED <<pending, pc, body, userProblem, response, rawContent, art, projectPath,
                   res, log, toolResults, dirs, files, faults, text>>

SlugSpec == SlugInit /\ [][Slugify]_vars

-----------------------------------------------------------------------------
(* Vocabulary of the properties *)

Received(r) == pc[r].at # "idle"

\* the first n characters of raw, or raw when it has no more
Excerpt(raw, n) == IF Len(raw) <= n THEN raw ELSE SubSeq(raw, 1, n)

\* the provider answered request r with status 200 and reply c
Replied(r, c) == response[r] = [status |-> 200, text |-> c.body]

\* the calls of request r other than the provider call
FsCalls(r) == { i \in DOMAIN log[r] : log[r][i].op # "fetch" }

\* request r has a call op on arg that settled with a status in sts
Settled(r, op, arg, sts) ==
    \E i \in DOMAIN log[r] : log[r][i].op = op /\ log[r][i].arg = arg /\ log[r][i].st \in sts

Errnos == {"EACCES", "EEXIST", "ENOENT", "ENOTDIR", "EISDIR", "ENOSPC", "ERR_INVALID_ARG_TYPE"}

\* the project directory of the description of request r
DescriptionFolder(r) == BaseDir \o "/" \o Slug(body[r].prompt.s)

-----------------------------------------------------------------------------
(* Properties *)

\* C1: every filesystem call of a request is made in
\* generated_websites/<slug of the request's description>: the directory
\* the shell is asked to make, the directory writeFileContent makes, and the
\* directory of every file written.
C1_FolderIsSlugOfDescription ==
    \A r \in Reqs : \A i \in FsCalls(r) :
        /\ log[r][i].op = "exec" => log[r][i].arg = MkdirCommand(DescriptionFolder(r))
        /\ log[r][i].op = "mkdirp" => log[r][i].arg = DescriptionFolder(r)
        /\ log[r][i].op = "writeFile" => Parent(log[r][i].arg) = DescriptionFolder(r)

\* the provider call of request r failed: it was rejected, or answered with
\* an error status, or with a body that lacks the text field
ProviderFailed(r) ==
    \/ Received(r) /\ Settled(r, "fetch", userProblem[r], {"rejected"})
    \/ response[r].status \in ErrorStatuses
    \/ response[r].status \in {200, 201} /\ response[r].text \in MalformedBodies

\* C2: when the provider call of a request has failed, the request has made
\* no filesystem call in any state, it is reading the body or has ended,
\* and when it has ended its response has status "error" and no artifact.
C2_ProviderFailureShortCircuits ==
    \A r \in Reqs :
        ProviderFailed(r) =>
            /\ FsCalls(r) = {}
            /\ pc[r].at \in {"json", "done"}
            /\ pc[r] = Done =>
                 /\ res[r].status = "error"
                 /\ res[r].html = Undefined /\ res[r].css = Undefined /\ res[r].js = Undefined

\* a request ended with an error after a successful status whose body lacks
\* the text field
C2_Witness ==
    \E r \in Reqs :
        /\ pc[r] = Done
        /\ response[r].status = 200 /\ response[r].text = "{\"choices\":[{\"message\":{}}]}"
        /\ res[r].status = "error"
        /\ FsCalls(r) = {}

\* C3: when the mkdir of the project directory has failed with permission
\* denied, the request writes no file, and its response is an error that
\* carries the system's message.
C3_MkdirFailureStops ==
    \A r \in Reqs :
        Settled(r, "exec", MkdirCommand(projectPath[r]), {"EACCES"}) =>
            /\ \A i \in FsCalls(r) : ~(log[r][i].op = "writeFile" /\ log[r][i].st = "")
            /\ pc[r] = Done =>
                 /\ res[r].status = "error"
                 /\ Contains(res[r].message, ErrnoText("EACCES"))

\* C4: when a request has ended after index.html was written and the write
\* of style.css failed, index.html holds the request's markup, script.js
\* was attempted if the script is not empty, and the response is an error
\* that names the style.css path, not the index.html path.
C4_StyleFailureReported ==
    \A r \in Reqs :
        ( /\ pc[r] = Done
          /\ Settled(r, "writeFile", FilePath(projectPath[r], IndexHtml), {""})
          /\ Settled(r, "writeFile", FilePath(projectPath[r], StyleCss), Errnos) ) =>
            /\ <<FilePath(projectPath[r], IndexHtml), art[r].html.s>> \in files
            /\ art[r].js # JStr("") =>
                 \E i \in FsCalls(r) : log[r][i].arg \in {projectPath[r], FilePath(projectPath[r], ScriptJs)}
                                       /\ i > 4
            /\ res[r].status = "error"
            /\ Contains(res[r].message, FilePath(projectPath[r], StyleCss))
            /\ ~Contains(res[r].message, FilePath(projectPath[r], IndexHtml))

\* C5: when the reply holds one fenced block whose content is no object,
\* the request ends at once with the ParseError message, which carries the
\* first ExcerptLen characters of the reply, and makes no filesystem call.
C5_BrokenBlockIsParseError ==
    \A r \in Reqs : \A c \in BrokenReplies :
        (Replied(r, c) /\ pc[r].at # "json") =>
            /\ pc[r] = Done
            /\ res[r].status = "error"
            /\ res[r].message = ParseErrorPrefix \o Excerpt(c.raw, ExcerptLen) \o "..."
            /\ FsCalls(r) = {}

\* C6: when the reply holds no fenced block, the request ends at once with
\* the BlockNotFound message, whose excerpt is the first ExcerptLen
\* characters of the reply or the whole reply when it is shorter, and makes
\* no filesystem call.
C6_NoBlockIsBlockNotFound ==
    \A r \in Reqs : \A c \in UnfencedReplies :
        (Replied(r, c) /\ pc[r].at # "json") =>
            /\ pc[r] = Done
            /\ res[r].status = "error"
            /\ res[r].message = BlockNotFoundPrefix \o Excerpt(c.raw, ExcerptLen) \o "..."
            /\ FsCalls(r) = {}

\* a request ended with BlockNotFound on an unfenced reply longer than the
\* excerpt
C6_Witness ==
    \E r \in Reqs : \E c \in UnfencedReplies :
        /\ Replied(r, c) /\ pc[r] = Done
        /\ Len(c.raw) > ExcerptLen
        /\ Contains(res[r].message, "JSON block not found")
        /\ Len(res[r].message) = Len(BlockNotFoundPrefix) + ExcerptLen + 3

\* the artifacts of request r are those reply c stands for, and so are the
\* artifacts of its response when it has ended
Extracted(r, c) ==
    /\ art[r] = [html |-> JStr(c.html), css |-> JStr(c.css), js |-> JStr(c.js)]
    /\ pc[r] = Done =>
         /\ res[r].status = "success"
         /\ res[r].html = JStr(c.html) /\ res[r].css = JStr(c.css) /\ res[r].js = JStr(c.js)

\* C7 as stated: whenever the reply contains a fenced block that is an
\* object, wherever in the reply, the artifacts are the values of its keys
\* html, css and js, and the empty text for a key it lacks.
C7_AnyGoodBlockExtracts ==
    \A r \in Reqs : \A c \in GoodReplies \cup ShadowedReplies :
        (Replied(r, c) /\ pc[r].at # "json") => Extracted(r, c)

\* C7: whenever the first fenced block of the reply (from the first opening
\* fence to the nearest closing fence) is an object, the artifacts are the
\* values of its keys html, css and js, unchanged, and the empty text for a
\* key it lacks; other keys change nothing.
C7_FirstGoodBlockExtracts ==
    \A r \in Reqs : \A c \in GoodReplies :
        (Replied(r, c) /\ pc[r].at # "json") => Extracted(r, c)

\* a request ended with success on a block that lacks css and js, holds a
\* key the handler does not read, and whose html needs escapes
C7_Witness ==
    \E r \in Reqs : \E c \in GoodReplies :
        /\ Replied(r, c) /\ pc[r] = Done
        /\ c.raw = Block("{" \o Member("html", "<a href=\"x\">\n</a>") \o "," \o Member("note", "x") \o "}")
        /\ res[r].status = "success"
        /\ res[r].html = JStr("<a href=\"x\">\n</a>") /\ res[r].css = JStr("") /\ res[r].js = JStr("")

\* C8: when the provider answered with an error status, whatever the body,
\* the response of the ended request has status "error" and a message that
\* contains "DeepSeek API error" and the status code.
C8_ErrorStatusIsReported ==
    \A r \in Reqs :
        (response[r].status \in ErrorStatuses /\ pc[r] = Done) =>
            /\ res[r].status = "error"
            /\ Contains(res[r].message, ApiErrorMarker)
            /\ Contains(res[r].message, Decimal(response[r].status))

\* C9: a received request whose description is missing or empty has ended
\* with code 400 and status "error", and has made no call: no provider
\* call, no response read, no extraction, no filesystem call.
C9_NoDescriptionIs400 ==
    \A r \in Reqs :
        (Received(r) /\ body[r].prompt \in {Undefined, JStr("")}) =>
            /\ pc[r] = Done
            /\ res[r].code = 400 /\ res[r].status = "error"
            /\ log[r] = <<>>
            /\ response[r].status = 0
            /\ art[r] = NoArtifacts /\ projectPath[r] = ""

\* a request with an empty description was answered with 400
C9_Witness ==
    \E r \in Reqs :
        /\ Received(r) /\ body[r].prompt = JStr("")
        /\ res[r].code = 400
        /\ log[r] = <<>>

\* t is a slug: not empty, only in [a-z0-9] and '-', no '-' first or last,
\* no "--"
WellFormedSlug(t) ==
    /\ t # ""
    /\ \A k \in 1..Len(t) : CharAt(t, k) \in Chars(LowerCase \o Digits \o "-")
    /\ CharAt(t, 1) # "-" /\ CharAt(t, Len(t)) # "-"
    /\ \A k \in 1..(Len(t) - 1) : SubSeq(t, k, k + 1) # "--"

\* C10: the slug of every text is well formed; it is 'generated-website'
\* when the text has no letter and no digit; the slug of the slug is the
\* slug; and the slug of "My Cool Site!!" is "my-cool-site".
C10_SlugTotalIdempotent ==
    /\ \A i \in DOMAIN derived : WellFormedSlug(derived[i])
    /\ Len(derived) >= 1 =>
         /\ Chars(text) \cap Chars(LowerCase \o UpperCase \o Digits) = {} => derived[1] = Fallback
         /\ text = "My Cool Site!!" => derived[1] = "my-cool-site"
    /\ Len(derived) = 2 => derived[2] = derived[1]

\* the derivation ran twice on a text with upper case, a run of other
\* characters, and such characters at its end
C10_Witness ==
    /\ text = "My Cool Site!!"
    /\ derived = <<"my-cool-site", "my-cool-site">>

\* request r passed the validation of its body
Accepted(r) == Received(r) /\ body[r].prompt \notin {Undefined, JNull, JStr("")}

\* C11: an accepted request has no response while it runs, and when it has
\* ended it has the response generateWebsiteWithDeepSeek returned (code 200,
\* not the 500 of an error thrown): status "success" with a message and the
\* three artifacts, or status "error" with a message and no artifact.
C11_UniformResponse ==
    \A r \in Reqs :
        Accepted(r) =>
            /\ pc[r] # Done => res[r] = NoResponse
            /\ pc[r] = Done =>
                 /\ res[r].code = 200
                 /\ res[r].status \in {"success", "error"}
                 /\ res[r].message # ""
                 /\ res[r].status = "success" =>
                      res[r].html # Undefined /\ res[r].css # Undefined /\ res[r].js # Undefined
                 /\ res[r].status = "error" =>
                      res[r].html = Undefined /\ res[r].css = Undefined /\ res[r].js = Undefined

\* the first request ended with the error of a TypeError caught (the body
\* lacks choices), a write of the second failed, and the second was
\* answered with success
C11_Witness ==
    /\ pc[1] = Done /\ response[1].text = "{}"
    /\ res[1].status = "error" /\ Contains(res[1].message, "Cannot read properties")
    /\ pc[2] = Done /\ res[2].status = "success"
    /\ \E i \in FsCalls(2) : log[2][i].op = "writeFile" /\ log[2][i].st \in Errnos

\* the file request r is writing
WritingPath(r) == FilePath(projectPath[r], pc[r].file)

\* the fs.writeFile call of request r settles in this step with a status in sts
WriteEnds(r, sts) ==
    /\ pc[r].at = "write"
    /\ Len(log'[r]) >= Len(log[r])
    /\ log'[r][Len(log[r])].st \in sts

FileOrder == <<IndexHtml, StyleCss, ScriptJs>>

\* how many writeFileContent calls request r has entered up to its i-th call
WritesEntered(r, i) == Cardinality({ j \in 1..i : log[r][j].op = "mkdirp" })

\* how many writeFileContent calls request r makes
WritesDue(r) == IF art[r].js = JStr("") THEN 2 ELSE 3

\* C13: the calls of a request are made in the order provider call, mkdir
\* of the project directory, index.html, style.css, and script.js when the
\* script is not empty; a call is made only when every call before it has
\* settled; the filesystem calls follow a provider call that returned; the
\* response is sent when no call is pending, and a success response after
\* the last write step.
C13_StepsInOrder ==
    \A r \in Reqs :
        /\ \A i \in 1..(Len(log[r]) - 1) : log[r][i].st # "pending"
        /\ \A i \in DOMAIN log[r] : (log[r][i].op = "fetch") = (i = 1)
        /\ \A i \in DOMAIN log[r] : (log[r][i].op = "exec") = (i = 2)
        /\ FsCalls(r) # {} => log[r][1].st = ""
        /\ \A i \in FsCalls(r) :
             /\ WritesEntered(r, i) <= WritesDue(r)
             /\ log[r][i].op = "writeFile" =>
                  /\ log[r][i - 1].op = "mkdirp" /\ log[r][i - 1].st = ""
                  /\ log[r][i].arg = FilePath(projectPath[r], FileOrder[WritesEntered(r, i)])
             /\ log[r][i].op = "mkdirp" =>
                  /\ log[r][i].arg = projectPath[r]
                  /\ log[r][i - 1].op \in {"exec", "mkdirp", "writeFile"}
        /\ res[r].code # 0 =>
             /\ \A i \in DOMAIN log[r] : log[r][i].st # "pending"
             /\ res[r].status = "success" => WritesEntered(r, Len(log[r])) = WritesDue(r)

\* a request was answered with success after its three writes, in order
C13_Witness ==
    \E r \in Reqs :
        /\ res[r].status = "success"
        /\ Len(log[r]) = 8
        /\ [i \in 1..8 |-> log[r][i].op]
             = <<"fetch", "exec", "mkdirp", "writeFile", "mkdirp", "writeFile", "mkdirp", "writeFile">>
        /\ log[r][8].arg = FilePath(projectPath[r], ScriptJs) /\ log[r][8].st = ""

\* request r is the latest request, it has ended with success, and a
\* request before it had the same project directory
LaterSuccess(r) ==
    /\ pc[r] = Done /\ res[r].status = "success"
    /\ \A q \in Reqs : q > r => pc[q] = Idle
    /\ \E q \in Reqs : q < r /\ projectPath[q] = projectPath[r]

\* the project directory of request r holds its artifacts and nothing else:
\* index.html its markup, style.css its stylesheet, and script.js its
\* script, or no script.js when the script is empty
HoldsExactly(r) ==
    /\ <<FilePath(projectPath[r], IndexHtml), art[r].html.s>> \in files
    /\ <<FilePath(projectPath[r], StyleCss), art[r].css.s>> \in files
    /\ IF art[r].js = JStr("")
       THEN FilePath(projectPath[r], ScriptJs) \notin FilePaths
       ELSE <<FilePath(projectPath[r], ScriptJs), art[r].js.s>> \in files

\* C14: when requests with the same project directory run one after
\* another, after the later one has ended with success the directory
\* holds exactly its artifacts, and nothing of the earlier request.
C14_LaterRequestReplaces ==
    \A r \in Reqs : LaterSuccess(r) => HoldsExactly(r)

\* the characters [a-z0-9-]
NameChars == Chars(LowerCase \o Digits \o "-")

\* t is BaseDir, a "/", and a name that is not empty and drawn only from
\* [a-z0-9-]
InBase(t) ==
    /\ Len(t) > Len(BaseDir) + 1
    /\ SubSeq(t, 1, Len(BaseDir) + 1) = BaseDir \o "/"
    /\ \A k \in (Len(BaseDir) + 2)..Len(t) : CharAt(t, k) \in NameChars

\* t is such a directory, a "/", and one of the fixed file names
FileInBase(t) ==
    \E name \in {IndexHtml, StyleCss, ScriptJs} :
        /\ Len(t) > Len(name) + 1
        /\ SubSeq(t, Len(t) - Len(name), Len(t)) = "/" \o name
        /\ InBase(SubSeq(t, 1, Len(t) - Len(name) - 1))

\* C15: whatever the description and the theme, the command run is "mkdir "
\* and one directory ./generated_websites/<name>, with <name> not empty and
\* drawn only from [a-z0-9-]; fs.mkdir is given such a directory and
\* fs.writeFile such a directory and a fixed file name; and every
\* directory and file is the working directory, the base directory, or
\* inside the base directory.
C15_PathsStayInBase ==
    /\ \A r \in Reqs : \A i \in FsCalls(r) :
         /\ log[r][i].op = "exec" =>
              /\ SubSeq(log[r][i].arg, 1, 6) = "mkdir "
              /\ InBase(SubSeq(log[r][i].arg, 7, Len(log[r][i].arg)))
         /\ log[r][i].op = "mkdirp" => InBase(log[r][i].arg)
         /\ log[r][i].op = "writeFile" => FileInBase(log[r][i].arg)
    /\ \A d \in dirs : d \in {".", BaseDir} \/ InBase(d)
    /\ \A f \in files : FileInBase(f[1])

\* the request whose description is a path out of the base directory has
\* ended with its index.html written
C15_Witness ==
    \E r \in Reqs :
        /\ body[r].prompt = JStr("../../etc/passwd") /\ body[r].theme = JStr("../x -p /tmp/y")
        /\ pc[r] = Done
        /\ Settled(r, "writeFile", FilePath(projectPath[r], IndexHtml), {""})
        /\ FilePath(projectPath[r], IndexHtml) \in FilePaths

====
